---- MODULE Spec2Model ----
(***************************************************************************)
(* State-machine model of pyFAI's GeometryRefinement                       *)
(* (src/pyFAI-src/geometryRefinement.py).                                  *)
(*                                                                         *)
(* Numbers.  Lengths (m) and angles (rad) are fixed-point integers in      *)
(* units of 1e-4: the integer n stands for n / Unit.  A stored bound of a   *)
(* length or an angle is kept in units of 1e-6 (n / (Unit * Fine)), which   *)
(* holds every product set_tolerance forms exactly, and carries its Python  *)
(* type ("int" or "float").                                                *)
(*                                                                         *)
(* Wavelengths are IEEE doubles and are kept as codes c = 8*q + e:         *)
(*   - a wavelength in metres is the double e ulps above the double        *)
(*     nearest to q * 1e-15  (800000 is 1e-10, 840000 is 1.05e-10,         *)
(*     840001 is 1.0500000000000001e-10);                                  *)
(*   - a wavelength handed to the optimiser (metres * 1e10) is the double   *)
(*     e ulps above the double nearest to q * 1e-5 (840000 is 1.05).       *)
(* The two unit conversions of refine2_wavelength are the IEEE products on *)
(* these codes (Scale1e10, Scale1em10), tabulated from the doubles, and so *)
(* are the two products set_tolerance stores as the wavelength bounds.     *)
(*                                                                         *)
(* A reference angle 2 arcsin(..) is kept to 1e-12 rad: a units of 1e-4    *)
(* and g parts in 1e8 of that unit.  Squared residuals are summed on       *)
(* such pairs, and an objective value is the sum in units of 1e-9 rad^2,   *)
(* rounded down.                                                           *)
(***************************************************************************)
EXTENDS Integers, Sequences, FiniteSets, TLC

VARIABLES pose, bound, param, ncols, dSpacing, tmpf, running, ncalls, last

vars == <<pose, bound, param, ncols, dSpacing, tmpf, running, ncalls, last>>

---------------------------------------------------------------------------
(* Bounds of the model *)

\* number of calls the caller makes on one engine
MaxCalls == 2

---------------------------------------------------------------------------
(* Numbers *)

\* fixed-point scale: the integer n stands for n / Unit
Unit == 10000

Abs(x) == IF x < 0 THEN -x ELSE x

Min2(a, b) == IF a <= b THEN a ELSE b

Max2(a, b) == IF a >= b THEN a ELSE b

\* product of a plain number (times Unit) and a fixed-point quantity
FMul(a, b) == (a * b) \div Unit

\* parts of a fixed-point unit kept below it
Micro == 100000000

\* Micro is Half * Half
Half == 10000

\* an objective value n stands for n / ChiUnit, in units of 1e-8 rad^2
ChiUnit == 10

\* a bound keeps Fine parts of a fixed-point unit
Fine == 100

\* math.pi as a bound, in units of 1e-6 rad
pi == 3141593

PyInt(n) == [v |-> n, t |-> "int"]

PyFloat(n) == [v |-> n, t |-> "float"]

\* 1e10 * x on a wavelength in metres (IEEE double product), on codes
Scale1e10(c) ==
  CASE c = 0 -> 0
    [] c = 8 -> 8
    [] c = 160000 -> 159999
    [] c = 400000 -> 400000
    [] c = 420000 -> 420000
    [] c = 420001 -> 420000
    [] c = 720000 -> 720000
    [] c = 756000 -> 756000
    [] c = 756001 -> 756001
    [] c = 800000 -> 800000
    [] c = 840000 -> 840000
    [] c = 840001 -> 840000
    [] c = 880001 -> 880000
    [] c = 924001 -> 924001
    [] c = 924002 -> 924001
    [] c = 1200000 -> 1200000
    [] c = 1260000 -> 1260000
    [] c = 1260001 -> 1260001
    [] c = 80000000 -> 80000000

\* 1e-10 * y on an optimiser-side wavelength (IEEE double product), on codes
Scale1em10(c) ==
  CASE c = 800000 -> 800000
    [] c = 840000 -> 840001

---------------------------------------------------------------------------
(* Names *)

d6 == <<"dist", "poni1", "poni2", "rot1", "rot2", "rot3">>

d7 == <<"dist", "poni1", "poni2", "rot1", "rot2", "rot3", "wavelength">>

Names7 == {d7[i] : i \in 1..7}

Range(s) == {s[i] : i \in 1..Len(s)}

---------------------------------------------------------------------------
(* Construction *)

\* pixel sizes of the detector, in units of 1e-4 m (100 um and 200 um)
pixel1 == 1

pixel2 == 2

\* the observations: pixel row, pixel column, ring index, weight, and a
\* fifth column for a dataset that is too wide
Rows ==
  << <<2299, 900, 0, 2, 7>>, <<4907, 1500, 1, 1, 7>>,
     <<2369, 850, 0, 1, 7>>, <<4977, 1450, 1, 1, 7>>,
     <<2229, 950, 0, 1, 7>>, <<4837, 1550, 1, 3, 7>> >>

\* d-spacing table handed to the constructor (angstrom, times Unit)
DSpacingFull == <<30000, 15000>>

\* constructor arguments: (columns of data, dSpacing, whether poni1 and
\* poni2 are given); without them the constructor calls guess_poni, which
\* needs the third column
Constructions ==
  {<<2, DSpacingFull, TRUE>>, <<3, DSpacingFull, TRUE>>,
   <<4, DSpacingFull, TRUE>>, <<5, DSpacingFull, TRUE>>,
   <<3, <<>>, TRUE>>, <<3, DSpacingFull, FALSE>>}

\* the pose of an engine constructed with poni1 = 0.01 and poni2 = 0.02
InitPose ==
  [dist |-> 10000, poni1 |-> 100, poni2 |-> 200,
   rot1 |-> 0, rot2 |-> 0, rot3 |-> 0, wavelength |-> 800000]

\* detector.calc_cartesian_positions: pixel coordinates to metres
calc_cartesian_positions(d1, d2) == <<d1 * pixel1, d2 * pixel2>>

\* the rows of the ring with the lowest third column
smallRing ==
  {i \in 1..Len(Rows) : \A j \in 1..Len(Rows) : Rows[i][3] <= Rows[j][3]}

RECURSIVE SumOver(_, _)
SumOver(f, S) ==
  IF S = {} THEN 0
  ELSE LET i == CHOOSE k \in S : TRUE IN f[i] + SumOver(f, S \ {i})

\* the (poni1, poni2) guess_poni assigns: the centroid of smallRing
GuessPoni ==
  LET m == [i \in 1..Len(Rows) |->
              calc_cartesian_positions(Rows[i][1], Rows[i][2])]
      l == Cardinality(smallRing)
  IN <<SumOver([i \in 1..Len(Rows) |-> m[i][1]], smallRing) \div l,
       SumOver([i \in 1..Len(Rows) |-> m[i][2]], smallRing) \div l>>

InitBound ==
  [dist |-> [min |-> PyInt(0), max |-> PyInt(10 * Unit * Fine)],
   poni1 |-> [min |-> PyFloat(-10000 * pixel1 * Fine),
              max |-> PyFloat(15000 * pixel1 * Fine)],
   poni2 |-> [min |-> PyFloat(-10000 * pixel2 * Fine),
              max |-> PyFloat(15000 * pixel2 * Fine)],
   rot1 |-> [min |-> PyFloat(-pi), max |-> PyFloat(pi)],
   rot2 |-> [min |-> PyFloat(-pi), max |-> PyFloat(pi)],
   rot3 |-> [min |-> PyFloat(-pi), max |-> PyFloat(pi)],
   wavelength |-> [min |-> PyFloat(8), max |-> PyFloat(80000000)]]

PoseVector(p) == [i \in 1..6 |-> p[d6[i]]]

\* param as the base constructor leaves it: a list holding the pose it was
\* given, which has poni1 = poni2 = 0
InitParam ==
  [kind |-> "list",
   v |-> PoseVector([InitPose EXCEPT !.poni1 = 0, !.poni2 = 0])]

NoRet == [tag |-> "none", v |-> 0, exc |-> ""]

Value(n) == [tag |-> "value", v |-> n, exc |-> ""]

Raise(e) == [tag |-> "error", v |-> 0, exc |-> e]

NoTool == [exists |-> TRUE, exit |-> 0, stdout |-> <<>>]

\* what the last call was, what it was given and what it gave back
NoCall ==
  [op |-> "init", name |-> "", side |-> "", input |-> PyInt(0), tol |-> 0,
   fix |-> {}, tool |-> NoTool,
   prePose |-> InitPose, preParam |-> InitParam, preBound |-> InitBound,
   minimized |-> "", handed |-> <<>>, weight |-> <<>>, cand |-> <<>>,
   inside |-> FALSE,
   old |-> 0, new |-> 0, committed |-> FALSE, ret |-> NoRet]

\* no roca call is waiting for its tool
NoRun ==
  [active |-> FALSE, tool |-> NoTool, newParam |-> <<>>, call |-> NoCall]

Init ==
  /\ \E c \in Constructions :
       /\ ncols = c[1]
       /\ dSpacing = c[2]
       /\ pose = IF c[3] THEN InitPose
                 ELSE [InitPose EXCEPT !.poni1 = GuessPoni[1],
                                       !.poni2 = GuessPoni[2]]
  /\ bound = InitBound
  /\ param = InitParam
  /\ tmpf = "none"
  /\ running = NoRun
  /\ ncalls = 0
  /\ last = NoCall

\* the record of a call made in the current state
Call(op) ==
  [NoCall EXCEPT !.op = op, !.prePose = pose, !.preParam = param,
                 !.preBound = bound]

guess_poni ==
  /\ ncalls < MaxCalls
  /\ IF ncols < 3
     THEN /\ pose' = pose
          /\ last' = [Call("guess_poni") EXCEPT !.ret = Raise("IndexError")]
     ELSE /\ pose' = [pose EXCEPT !.poni1 = GuessPoni[1],
                                  !.poni2 = GuessPoni[2]]
          /\ last' = Call("guess_poni")
  /\ ncalls' = ncalls + 1
  /\ UNCHANGED <<bound, param, ncols, dSpacing, tmpf, running>>

---------------------------------------------------------------------------
(* Bound setters and set_tolerance *)

\* set_<name>_<side>: a float is stored as it is, anything else through float()
Coerce(value) == IF value.t = "float" THEN value ELSE PyFloat(value.v)

SetBound(b, name, side, value) ==
  [b EXCEPT ![name] = IF side = "min"
                      THEN [@ EXCEPT !.min = Coerce(value)]
                      ELSE [@ EXCEPT !.max = Coerce(value)]]

\* inputs a caller hands to a setter: the int 0, and the float 16.0 for a
\* length or an angle, 2e-11 for the wavelength
SetterInputs(name) ==
  IF name = "wavelength" THEN {PyInt(0), PyFloat(160000)}
  ELSE {PyInt(0), PyFloat(16 * Unit * Fine)}

set_bound(name, side, value) ==
  /\ ncalls < MaxCalls
  /\ bound' = SetBound(bound, name, side, value)
  /\ last' = [Call("set_bound") EXCEPT !.name = name, !.side = side,
                                       !.input = value]
  /\ ncalls' = ncalls + 1
  /\ UNCHANGED <<pose, param, ncols, dSpacing, tmpf, running>>

\* low * x and hi * x, low = 1.0 - value / 100., hi = 1.0 + value / 100.,
\* on a length or an angle x, as a bound
TolLow(value, x) == ((100 - value) * x * Fine) \div 100

TolHi(value, x) == ((100 + value) * x * Fine) \div 100

\* low * x and hi * x on a wavelength in metres (IEEE double products), on
\* codes
TolLowW(value, c) ==
  CASE value = 10 /\ c = 800000 -> 720000
    [] value = 10 /\ c = 840000 -> 756000
    [] value = 10 /\ c = 840001 -> 756001
    [] value = 50 /\ c = 800000 -> 400000
    [] value = 50 /\ c = 840000 -> 420000
    [] value = 50 /\ c = 840001 -> 420001

TolHiW(value, c) ==
  CASE value = 10 /\ c = 800000 -> 880001
    [] value = 10 /\ c = 840000 -> 924001
    [] value = 10 /\ c = 840001 -> 924002
    [] value = 50 /\ c = 800000 -> 1200000
    [] value = 50 /\ c = 840000 -> 1260000
    [] value = 50 /\ c = 840001 -> 1260001

\* the threshold taken linear in the tolerance: value / 100.
TolSqLinear(value) == ((value * Unit) \div 100) * Fine

\* (value / 100.) ** 2, as a bound
TolSq(value) == ((value * value * Unit) \div 10000) * Fine

\* the pair set_tolerance stores for poni1, poni2, rot1, rot2, rot3
TolPair(value, x) ==
  IF Abs(x) * Fine > TolSq(value)
  THEN [min |-> PyFloat(Min2(TolLow(value, x), TolHi(value, x))),
        max |-> PyFloat(Max2(TolLow(value, x), TolHi(value, x)))]
  ELSE [min |-> PyFloat(-TolSq(value)), max |-> PyFloat(TolSq(value))]

\* the pair set_tolerance stores for dist
TolPlain(value, x) ==
  [min |-> PyFloat(TolLow(value, x)), max |-> PyFloat(TolHi(value, x))]

\* the pair set_tolerance stores for wavelength
TolPlainW(value, c) ==
  [min |-> PyFloat(TolLowW(value, c)), max |-> PyFloat(TolHiW(value, c))]

SetTolerance(p, value) ==
  [n \in Names7 |->
     IF n = "dist" THEN TolPlain(value, p[n])
     ELSE IF n = "wavelength" THEN TolPlainW(value, p[n])
     ELSE TolPair(value, p[n])]

\* tolerances (percent) a caller asks for
Tolerances == {10, 50}

set_tolerance(value) ==
  /\ ncalls < MaxCalls
  /\ bound' = SetTolerance(pose, value)
  /\ last' = [Call("set_tolerance") EXCEPT !.tol = value]
  /\ ncalls' = ncalls + 1
  /\ UNCHANGED <<pose, param, ncols, dSpacing, tmpf, running>>

---------------------------------------------------------------------------
(* The caller writes a pose field *)

WriteValues(name) ==
  CASE name = "dist" -> {-10000}
    [] name = "poni1" -> {200, 0}
    [] name = "poni2" -> {-400}
    [] name = "wavelength" -> {840000}
    [] OTHER -> {100}

write_pose(name, value) ==
  /\ ncalls < MaxCalls
  /\ pose' = [pose EXCEPT ![name] = value]
  /\ last' = [Call("write") EXCEPT !.name = name]
  /\ ncalls' = ncalls + 1
  /\ UNCHANGED <<bound, param, ncols, dSpacing, tmpf, running>>

---------------------------------------------------------------------------
(* Residuals *)

\* the forward model of the geometry base class: the scattering angle of
\* pixel (d1, d2) under the pose param[1..6]; each pose field moves the
\* angle by its own amount:
\*   |d1 pixel1 - poni1| + 0.7 |d2 pixel2 - poni2|
\*     + 0.37 rot1 + 0.41 rot2 + 0.43 rot3 + 0.013 dist
tth(d1, d2, p) ==
  Abs(d1 * pixel1 - p[2]) + (7 * Abs(d2 * pixel2 - p[3])) \div 10
    + (37 * p[4] + 41 * p[5] + 43 * p[6]) \div 100 + (13 * p[1]) \div 1000

\* 2.0 * arcsin(wavelength / (2.0e-10 * d)), wavelength a metres code,
\* d in angstrom times Unit: the angle is a + g / Micro, in units of 1e-4 rad
TwoArcsin(w, d) ==
  CASE w = 800000 /\ d = 30000 -> [a |-> 3348, g |-> 96158439]
    [] w = 800000 /\ d = 15000 -> [a |-> 6796, g |-> 73818908]
    [] w \in {840000, 840001} /\ d = 30000 -> [a |-> 3518, g |-> 11536327]
    [] w \in {840000, 840001} /\ d = 15000 -> [a |-> 7151, g |-> 42207291]

calc_2th(ring, w) == TwoArcsin(w, dSpacing[ring + 1])

\* what evaluating a residual over the dataset raises ("" when nothing):
\* data[:, 2] needs three columns, dSpacing[rings] a long enough table
ResidualError ==
  IF ncols < 3 THEN "IndexError"
  ELSE IF \E i \in 1..Len(Rows) : Rows[i][3] + 1 > Len(dSpacing)
       THEN "IndexError"
       ELSE ""

\* a residual a + g / Micro, in units of 1e-4 rad
residu1(p, d1, d2, ring) ==
  LET ref == calc_2th(ring, pose.wavelength)
  IN [a |-> tth(d1, d2, p) - ref.a, g |-> -ref.g]

residu1_wavelength(p, d1, d2, ring) ==
  LET ref == calc_2th(ring, Scale1em10(p[7]))
  IN [a |-> tth(d1, d2, p) - ref.a, g |-> -ref.g]

\* r ** 2 as w + m / Micro with 0 <= m < Micro, in units of 1e-8 rad^2
Sq(r) ==
  LET gh == r.g \div Half
      gl == r.g % Half
      x == 2 * r.a * gh
      m == (x % Half) * Half + 2 * r.a * gl + gh * gh + (2 * gh * gl) \div Half
  IN [w |-> r.a * r.a + x \div Half + m \div Micro, m |-> m % Micro]

\* weight * s on such a pair
Times(k, s) == [w |-> k * s.w + (k * s.m) \div Micro, m |-> (k * s.m) % Micro]

\* .sum(): the sum of f[1..n], as an objective value
RECURSIVE SumPairs(_, _)
SumPairs(f, n) ==
  IF n = 0 THEN [w |-> 0, m |-> 0]
  ELSE LET t == SumPairs(f, n - 1)
       IN [w |-> f[n].w + t.w + (f[n].m + t.m) \div Micro,
           m |-> (f[n].m + t.m) % Micro]

SumTo(f, n) ==
  LET t == SumPairs(f, n) IN ChiUnit * t.w + (ChiUnit * t.m) \div Micro

residu2(p) ==
  SumTo([i \in 1..Len(Rows) |->
           Sq(residu1(p, Rows[i][1], Rows[i][2], Rows[i][3]))], Len(Rows))

residu2_weighted(p) ==
  SumTo([i \in 1..Len(Rows) |->
           Times(Rows[i][4],
                 Sq(residu1(p, Rows[i][1], Rows[i][2], Rows[i][3])))],
        Len(Rows))

residu2_wavelength(p) ==
  SumTo([i \in 1..Len(Rows) |->
           Sq(residu1_wavelength(p, Rows[i][1], Rows[i][2], Rows[i][3]))],
        Len(Rows))

residu2_wavelength_weighted(p) ==
  SumTo([i \in 1..Len(Rows) |->
           Times(Rows[i][4],
                 Sq(residu1_wavelength(p, Rows[i][1], Rows[i][2],
                                       Rows[i][3])))],
        Len(Rows))

\* chi2(param): the unweighted objective at param, at the current wavelength
chi2(p) == residu2(p)

---------------------------------------------------------------------------
(* The refinement strategies *)

\* the six pose fields set from a parameter vector
CommitPose(p, newParam) ==
  [p EXCEPT !.dist = newParam[1], !.poni1 = newParam[2], !.poni2 = newParam[3],
            !.rot1 = newParam[4], !.rot2 = newParam[5], !.rot3 = newParam[6]]

\* what a minimiser started at x0 may hand back: x0 itself, or x0 moved
Cands6(x0) ==
  {x0, [x0 EXCEPT ![2] = 200], [x0 EXCEPT ![1] = 0], [x0 EXCEPT ![4] = 100]}

Cands7(x0) ==
  Cands6(x0) \cup {[x0 EXCEPT ![7] = 840000], [x0 EXCEPT ![7] = 800000]}

\* whether x lies inside the (lower, upper) pairs; the seventh entry, a
\* wavelength, is a code like its pair
Inside(x, bounds) ==
  \A i \in 1..Len(bounds) :
    LET v == IF i = 7 THEN x[i] ELSE x[i] * Fine
    IN bounds[i][1] <= v /\ v <= bounds[i][2]

\* the fix arguments a caller passes (the first is the default)
FixSets == {{"wavelength"}, {"dist", "wavelength"}, {}}

\* the bounds list refine2 and refine2_wavelength build over the names d
BoundsFor(d, fix) ==
  [i \in 1..Len(d) |->
     IF d[i] \in fix
     THEN IF d[i] = "wavelength" THEN <<pose[d[i]], pose[d[i]]>>
          ELSE <<pose[d[i]] * Fine, pose[d[i]] * Fine>>
     ELSE <<bound[d[i]].min.v, bound[d[i]].max.v>>]

\* the lower and upper arrays anneal passes, as pairs
AnnealBounds == [i \in 1..6 |-> <<bound[d6[i]].min.v, bound[d6[i]].max.v>>]

\* the record of a strategy call that compared oldDeltaSq and newDeltaSq
Decided(op, objective, handed, newParam, oldDeltaSq, newDeltaSq) ==
  [Call(op) EXCEPT !.minimized = objective, !.handed = handed,
                   !.cand = newParam, !.inside = Inside(newParam, handed),
                   !.old = oldDeltaSq, !.new = newDeltaSq,
                   !.committed = (newDeltaSq < oldDeltaSq),
                   !.ret = IF newDeltaSq < oldDeltaSq
                           THEN Value(newDeltaSq) ELSE Value(oldDeltaSq)]

\* the record of a strategy call that ended with an exception
Failed(op, objective, handed, exc) ==
  [Call(op) EXCEPT !.minimized = objective, !.handed = handed,
                   !.ret = Raise(exc)]

refine1(newParam) ==
  /\ ncalls < MaxCalls
  /\ LET snap == [kind |-> "ndarray", v |-> PoseVector(pose)]
         oldDeltaSq == chi2(snap.v)
         newDeltaSq == chi2(newParam)
     IN IF ResidualError # ""
        THEN /\ param' = snap
             /\ pose' = pose
             /\ last' = Failed("refine1", IF ncols < 3 THEN "" ELSE "residu1",
                               <<>>, ResidualError)
        ELSE /\ last' = Decided("refine1", "residu1", <<>>, newParam,
                                oldDeltaSq, newDeltaSq)
             /\ IF newDeltaSq < oldDeltaSq
                THEN /\ param' = [kind |-> "ndarray", v |-> newParam]
                     /\ pose' = CommitPose(pose, newParam)
                ELSE /\ param' = snap
                     /\ pose' = pose
  /\ ncalls' = ncalls + 1
  /\ UNCHANGED <<bound, ncols, dSpacing, tmpf, running>>

\* the weight argument refine2 and refine2_wavelength hand to fmin_slsqp
Weight ==
  IF ncols = 4 THEN [i \in 1..Len(Rows) |-> Rows[i][4]] ELSE <<>>

\* the column test written as if / else: every width but 3 is weighted
Objective2Else == IF ncols = 3 THEN "residu2" ELSE "residu2_weighted"

\* the objective refine2 hands to fmin_slsqp ("" when the column count
\* selects none)
Objective2 ==
  IF ncols = 3 THEN "residu2" ELSE IF ncols = 4 THEN "residu2_weighted" ELSE ""

refine2(fix, newParam) ==
  /\ ncalls < MaxCalls
  /\ LET bounds == BoundsFor(d6, fix)
         snap == [kind |-> "ndarray", v |-> PoseVector(pose)]
         oldDeltaSq == chi2(snap.v)
         newDeltaSq == chi2(newParam)
         rec(r) == [r EXCEPT !.fix = fix,
                             !.weight = IF r.minimized = "" THEN <<>>
                                        ELSE Weight]
     IN IF ResidualError # ""
        THEN /\ param' = snap
             /\ pose' = pose
             /\ last' = rec(Failed("refine2", Objective2,
                                   IF Objective2 = "" THEN <<>> ELSE bounds,
                                   ResidualError))
        ELSE IF Objective2 = ""
        THEN /\ param' = snap
             /\ pose' = pose
             /\ last' = rec(Failed("refine2", "", <<>>, "UnboundLocalError"))
        ELSE /\ last' = rec(Decided("refine2", Objective2, bounds, newParam,
                                    oldDeltaSq, newDeltaSq))
             /\ IF newDeltaSq < oldDeltaSq
                THEN /\ param' = [kind |-> "ndarray", v |-> newParam]
                     /\ pose' = CommitPose(pose, newParam)
                ELSE /\ param' = snap
                     /\ pose' = pose
  /\ ncalls' = ncalls + 1
  /\ UNCHANGED <<bound, ncols, dSpacing, tmpf, running>>

Objective2W ==
  IF ncols = 3 THEN "residu2_wavelength"
  ELSE IF ncols = 4 THEN "residu2_wavelength_weighted" ELSE ""

\* the bounds list of refine2_wavelength: its last pair times 1e10
BoundsW(fix) ==
  [BoundsFor(d7, fix) EXCEPT ![7] = <<Scale1e10(@[1]), Scale1e10(@[2])>>]

\* the parameter list of refine2_wavelength: its last entry times 1e10
ParamW == Append(PoseVector(pose), Scale1e10(pose.wavelength))

refine2_wavelength(fix, newParam) ==
  /\ ncalls < MaxCalls
  /\ LET bounds == BoundsW(fix)
         snap == [kind |-> "ndarray", v |-> ParamW]
         oldDeltaSq == residu2_wavelength(snap.v)
         newDeltaSq == residu2_wavelength(newParam)
         rec(r) == [r EXCEPT !.fix = fix,
                             !.weight = IF r.minimized = "" THEN <<>>
                                        ELSE Weight]
     IN IF ResidualError # ""
        THEN /\ param' = snap
             /\ pose' = pose
             /\ last' = rec(Failed("refine2_wavelength", Objective2W,
                                   IF Objective2W = "" THEN <<>> ELSE bounds,
                                   ResidualError))
        ELSE IF Objective2W = ""
        THEN /\ param' = snap
             /\ pose' = pose
             /\ last' = rec(Failed("refine2_wavelength", "", <<>>,
                                   "UnboundLocalError"))
        ELSE /\ last' = rec(Decided("refine2_wavelength", Objective2W, bounds,
                                    newParam, oldDeltaSq, newDeltaSq))
             /\ IF newDeltaSq < oldDeltaSq
                THEN /\ param' = [kind |-> "ndarray", v |-> newParam]
                     /\ pose' = [CommitPose(pose, newParam) EXCEPT
                                   !.wavelength = Scale1em10(newParam[7])]
                ELSE /\ param' = snap
                     /\ pose' = pose
  /\ ncalls' = ncalls + 1
  /\ UNCHANGED <<bound, ncols, dSpacing, tmpf, running>>

simplex(newParam) ==
  /\ ncalls < MaxCalls
  /\ LET snap == [kind |-> "ndarray", v |-> PoseVector(pose)]
         oldDeltaSq == chi2(snap.v)
         newDeltaSq == chi2(newParam)
     IN IF ResidualError # ""
        THEN /\ param' = snap
             /\ pose' = pose
             /\ last' = Failed("simplex", IF ncols < 3 THEN "" ELSE "residu2",
                               <<>>, ResidualError)
        ELSE /\ last' = Decided("simplex", "residu2", <<>>, newParam,
                                oldDeltaSq, newDeltaSq)
             /\ IF newDeltaSq < oldDeltaSq
                THEN /\ param' = [kind |-> "ndarray", v |-> newParam]
                     /\ pose' = CommitPose(pose, newParam)
                ELSE /\ param' = snap
                     /\ pose' = pose
  /\ ncalls' = ncalls + 1
  /\ UNCHANGED <<bound, ncols, dSpacing, tmpf, running>>

anneal(newParam) ==
  /\ ncalls < MaxCalls
  /\ LET snap == [kind |-> "list", v |-> PoseVector(pose)]
         oldDeltaSq == chi2(snap.v)
         newDeltaSq == chi2(newParam)
     IN IF ResidualError # ""
        THEN /\ param' = snap
             /\ pose' = pose
             /\ last' = Failed("anneal", IF ncols < 3 THEN "" ELSE "residu2",
                               IF ncols < 3 THEN <<>> ELSE AnnealBounds,
                               ResidualError)
        ELSE /\ last' = Decided("anneal", "residu2", AnnealBounds, newParam,
                                oldDeltaSq, newDeltaSq)
             /\ IF newDeltaSq < oldDeltaSq
                THEN /\ param' = [kind |-> "ndarray", v |-> newParam]
                     /\ pose' = CommitPose(pose, newParam)
                ELSE /\ param' = snap
                     /\ pose' = pose
  /\ ncalls' = ncalls + 1
  /\ UNCHANGED <<bound, ncols, dSpacing, tmpf, running>>

---------------------------------------------------------------------------
(* The chi-squared accessors, called with no argument *)

chi2_call ==
  /\ ncalls < MaxCalls
  /\ last' = [Call("chi2") EXCEPT
                !.ret = IF ResidualError # "" THEN Raise(ResidualError)
                        ELSE Value(chi2(param.v))]
  /\ ncalls' = ncalls + 1
  /\ UNCHANGED <<pose, bound, param, ncols, dSpacing, tmpf, running>>

chi2_wavelength_call ==
  /\ ncalls < MaxCalls
  /\ IF Len(param.v) = 6 /\ param.kind # "list"
     THEN /\ param' = param
          /\ last' = [Call("chi2_wavelength") EXCEPT
                        !.ret = Raise("AttributeError")]
     ELSE /\ param' = IF Len(param.v) = 6
                      THEN [param EXCEPT
                              !.v = Append(@, Scale1e10(pose.wavelength))]
                      ELSE param
          /\ last' = [Call("chi2_wavelength") EXCEPT
                        !.ret = IF ResidualError # "" THEN Raise(ResidualError)
                                ELSE Value(residu2_wavelength(param'.v))]
  /\ ncalls' = ncalls + 1
  /\ UNCHANGED <<pose, bound, ncols, dSpacing, tmpf, running>>

---------------------------------------------------------------------------
(* The external tool *)

\* float(token) times Unit, for the tokens float() accepts; the tool
\* prints cen1 and cen2 in pixels, dis in metres and the rotations in radians
FloatTable ==
  [t \in {"200", "100", "1.0", "0.01", "0.5", "1e3"} |->
     CASE t = "200" -> 200 * Unit
       [] t = "100" -> 100 * Unit
       [] t = "1.0" -> Unit
       [] t = "0.01" -> 100
       [] t = "0.5" -> 5000
       [] t = "1e3" -> 1000 * Unit]

IsFloat(t) == t \in DOMAIN FloatTable

\* the lines of standard output, each already split on whitespace
RocaStdouts ==
  {<< <<"cen1", "200", "px">>, <<"cen2", "100", "px">> >>,
   << <<"roca:", "done">>, <<"chi2", "=", "0.5", "ok">> >>,
   << <<"cen1", "abc", "px">> >>,
   << <<"dis", "1.0", "m">>, <<"rot1", "0.01", "rad">> >>,
   << <<"dis", "0.5", "m">> >>,
   <<>>}

\* how a run of the tool can end: no executable; or an exit status and output
RocaOutcomes ==
  {[exists |-> FALSE, exit |-> 0, stdout |-> <<>>],
   [exists |-> TRUE, exit |-> 1, stdout |-> <<>>],
   [exists |-> TRUE, exit |-> 1, stdout |-> << <<"cen1", "200", "px">> >>]}
    \cup {[exists |-> TRUE, exit |-> 0, stdout |-> o] : o \in RocaStdouts}

\* index in newParam and pixel factor of a recognised name
RocaSlot(name) ==
  CASE name = "cen1" -> <<2, pixel1>>
    [] name = "cen2" -> <<3, pixel2>>
    [] name = "dis" -> <<1, Unit>>
    [] name = "rot1" -> <<4, Unit>>
    [] name = "rot2" -> <<5, Unit>>
    [] name = "rot3" -> <<6, Unit>>
    [] OTHER -> <<0, 0>>

\* one line of output applied to newParam; err is the exception float() raises
RocaLine(acc, word) ==
  IF acc.err # "" \/ Len(word) # 3 \/ RocaSlot(word[1])[1] = 0
  THEN acc
  ELSE IF ~IsFloat(word[2])
  THEN [acc EXCEPT !.err = "ValueError"]
  ELSE [acc EXCEPT !.v[RocaSlot(word[1])[1]] =
                      FMul(FloatTable[word[2]], RocaSlot(word[1])[2])]

RECURSIVE RocaParse(_, _, _)
RocaParse(acc, lines, i) ==
  IF i > Len(lines) THEN acc
  ELSE RocaParse(RocaLine(acc, lines[i]), lines, i + 1)

\* roca up to the point where it waits for the tool: the temporary file is
\* written, the tool started, and newParam read from the pose
roca_start(tool) ==
  /\ ncalls < MaxCalls
  /\ ~running.active
  /\ LET exc == IF ncols < 3 THEN "IndexError"
                ELSE IF ~tool.exists THEN "OSError" ELSE ""
     IN IF exc # ""
        THEN /\ running' = running
             /\ last' = [Failed("roca", "", <<>>, exc) EXCEPT !.tool = tool]
        ELSE /\ running' = [active |-> TRUE, tool |-> tool,
                            newParam |-> PoseVector(pose),
                            call |-> Call("roca")]
             /\ last' = [Call("roca_start") EXCEPT !.tool = tool]
  /\ tmpf' = "open"
  /\ ncalls' = ncalls + 1
  /\ UNCHANGED <<pose, bound, param, ncols, dSpacing>>

\* roca from the end of the tool's output on: the lines are parsed, the
\* candidate compared with param as it is now, and the file closed
roca_end ==
  /\ running.active
  /\ LET tool == running.tool
         parsed == RocaParse([v |-> running.newParam, err |-> ""],
                             tool.stdout, 1)
         newParam == parsed.v
         exc == IF parsed.err # "" THEN parsed.err ELSE ResidualError
         rec == [running.call EXCEPT !.tool = tool]
     IN IF exc # ""
        THEN /\ tmpf' = "open"
             /\ param' = param
             /\ pose' = pose
             /\ last' = [rec EXCEPT !.ret = Raise(exc)]
        ELSE /\ tmpf' = "closed"
             /\ last' = [rec EXCEPT
                           !.cand = newParam,
                           !.old = chi2(param.v), !.new = chi2(newParam),
                           !.committed = (chi2(newParam) < chi2(param.v))]
             /\ IF chi2(newParam) < chi2(param.v)
                THEN /\ param' = [kind |-> "list", v |-> newParam]
                     /\ pose' = CommitPose(pose, newParam)
                ELSE /\ param' = param
                     /\ pose' = pose
  /\ running' = NoRun
  /\ UNCHANGED <<bound, ncols, dSpacing, ncalls>>

---------------------------------------------------------------------------

Next ==
  \/ \E newParam \in Cands6(PoseVector(pose)) : refine1(newParam)
  \/ \E fix \in FixSets : \E newParam \in Cands6(PoseVector(pose)) :
       refine2(fix, newParam)
  \/ \E fix \in FixSets : \E newParam \in Cands7(ParamW) :
       refine2_wavelength(fix, newParam)
  \/ \E newParam \in Cands6(PoseVector(pose)) : simplex(newParam)
  \/ \E newParam \in Cands6(PoseVector(pose)) : anneal(newParam)
  \/ \E tool \in RocaOutcomes : roca_start(tool)
  \/ roca_end
  \/ chi2_call
  \/ chi2_wavelength_call
  \/ guess_poni
  \/ \E name \in Names7, side \in {"min", "max"} :
       \E value \in SetterInputs(name) : set_bound(name, side, value)
  \/ \E value \in Tolerances : set_tolerance(value)
  \/ \E name \in Names7 : \E value \in WriteValues(name) : write_pose(name, value)

Spec == Init /\ [][Next]_vars

---------------------------------------------------------------------------
(* Properties *)

Strategies ==
  {"refine1", "refine2", "refine2_wavelength", "simplex", "anneal", "roca"}

\* chi-squared of the pose fields p: the sum over the observations of the
\* squared difference between the predicted angle at p and the reference
\* angle of the ring at p.wavelength
PoseChi2(p) ==
  SumTo([i \in 1..Len(Rows) |->
           LET ref == TwoArcsin(p.wavelength, dSpacing[Rows[i][3] + 1])
           IN Sq([a |-> tth(Rows[i][1], Rows[i][2], PoseVector(p)) - ref.a,
                  g |-> -ref.g])],
        Len(Rows))

\* C1 (commit invariant): after a call of any strategy, in any state, the
\* chi-squared of the pose fields is at most the chi-squared of the pose
\* fields just before the call.
C1_CommitInvariant ==
  (last.op \in Strategies /\ ResidualError = "")
    => PoseChi2(pose) <= PoseChi2(last.prePose)

\* C2 (idempotence of non-improvement): a strategy call whose candidate did
\* not have a strictly lower chi-squared than what it was compared with
\* leaves the seven pose fields unchanged and returns the pre-call
\* chi-squared.
C2_NonImprovementIsNoOp ==
  (last.op \in Strategies /\ last.cand # <<>> /\ ~(last.new < last.old))
    => /\ pose = last.prePose
       /\ last.ret = Value(PoseChi2(last.prePose))

\* C3 (returned value): every strategy call that ends normally, roca
\* included, returns the smaller of the snapshot's and the candidate's
\* chi-squared.
C3_ReturnsPostDecisionChi2 ==
  (last.op \in Strategies /\ last.ret.tag # "error")
    => last.ret = Value(Min2(last.old, last.new))

\* C4 (temporary file): whenever roca has finished, normally or with an
\* error, its temporary file is no longer open.
C4_TmpfReleased == last.op = "roca" => tmpf # "open"

\* a run of the external tool that failed: no executable, a non-zero exit
\* status, or nothing on standard output
ToolFailed(tool) == ~tool.exists \/ tool.exit # 0 \/ tool.stdout = <<>>

\* C5 (tool failure): a roca call whose tool failed ends with an error and
\* changes neither a pose field nor param.
C5_ToolFailureIsError ==
  (last.op = "roca" /\ ToolFailed(last.tool))
    => /\ last.ret.tag = "error"
       /\ pose = last.prePose
       /\ param = last.preParam

\* C6 (chi2_wavelength with no argument): in every state it returns the
\* wavelength-refined objective of the snapshot, a 6-element snapshot being
\* extended with 1e10 times the current wavelength.
C6_Chi2WavelengthSucceeds ==
  (last.op = "chi2_wavelength" /\ ResidualError = "")
    => last.ret =
         Value(residu2_wavelength(
                 IF Len(last.preParam.v) = 6
                 THEN Append(last.preParam.v, Scale1e10(pose.wavelength))
                 ELSE last.preParam.v))

\* C7 (bound types): in every state each of the 14 stored bounds is a float.
C7_BoundsAreFloats ==
  \A n \in Names7 : bound[n].min.t = "float" /\ bound[n].max.t = "float"

\* C8 (set_tolerance): after set_tolerance(value), with t2 = (value/100)^2,
\* each of poni1, poni2, rot1, rot2, rot3 with |x| <= t2 has bounds
\* (-t2, t2) and otherwise (min, max) of (1 - value/100) x and
\* (1 + value/100) x; dist and wavelength have ((1 - value/100) x,
\* (1 + value/100) x) unordered, for wavelength as the double products;
\* poni1 = 0 with value = 10 gives (-0.01, 0.01); and no pose field has
\* changed.
C8_SetTolerance ==
  last.op = "set_tolerance" =>
    LET value == last.tol
        t2 == value * value * Fine
        lo(x) == (100 - value) * x
        hi(x) == (100 + value) * x
        small(x) == -t2 <= x * Fine /\ x * Fine <= t2
    IN /\ \A n \in {"poni1", "poni2", "rot1", "rot2", "rot3"} :
            /\ small(pose[n])
                 => bound[n].min.v = -t2 /\ bound[n].max.v = t2
            /\ ~small(pose[n])
                 => /\ bound[n].min.v = Min2(lo(pose[n]), hi(pose[n]))
                    /\ bound[n].max.v = Max2(lo(pose[n]), hi(pose[n]))
       /\ bound.dist.min.v = lo(pose.dist)
       /\ bound.dist.max.v = hi(pose.dist)
       /\ bound.wavelength.min.v = TolLowW(value, pose.wavelength)
       /\ bound.wavelength.max.v = TolHiW(value, pose.wavelength)
       /\ (value = 10 /\ pose.poni1 = 0)
            => bound.poni1.min.v = -10000 /\ bound.poni1.max.v = 10000
       /\ pose = last.prePose

\* set_tolerance(10) has been called with poni1 = 0 and has stored the
\* degenerate pair for it and the ordered pair for poni2
C8_Witness ==
  /\ last.op = "set_tolerance"
  /\ last.tol = 10
  /\ pose.poni1 = 0 /\ bound.poni1.min.v = -10000 /\ bound.poni1.max.v = 10000
  /\ pose.poni2 = 200 /\ bound.poni2.min.v = 18000 /\ bound.poni2.max.v = 22000

\* C9 (fixed parameters): the pairs handed to the minimiser are (value,
\* value) for a name in fix and the stored (min, max) otherwise, the
\* wavelength pair times 1e10 in refine2_wavelength; and after a call whose
\* minimiser returned a point inside these pairs every fixed parameter has
\* its pre-call value, so refine2_wavelength with the default fix leaves
\* wavelength unchanged.
C9_FixedParametersKept ==
  (last.op \in {"refine2", "refine2_wavelength"} /\ last.handed # <<>>)
    => LET d == IF last.op = "refine2" THEN d6 ELSE d7
           P == last.prePose
           B == last.preBound
       IN /\ \A i \in 1..Len(d) :
               last.handed[i] =
                 IF d[i] = "wavelength"
                 THEN IF d[i] \in last.fix
                      THEN <<Scale1e10(P[d[i]]), Scale1e10(P[d[i]])>>
                      ELSE <<Scale1e10(B[d[i]].min.v), Scale1e10(B[d[i]].max.v)>>
                 ELSE IF d[i] \in last.fix
                      THEN <<P[d[i]] * Fine, P[d[i]] * Fine>>
                      ELSE <<B[d[i]].min.v, B[d[i]].max.v>>
          /\ (last.cand # <<>> /\ last.inside)
               => \A n \in (last.fix \cap Range(d)) : pose[n] = P[n]

\* C10 (column count): with a column count other than 3 and 4, refine2 and
\* refine2_wavelength end with an error, hand nothing to a minimiser and
\* leave the seven pose fields as they were; with 3 columns they minimise
\* the unweighted objective and with 4 columns the weighted one, with
\* column 3 as the weights.
C10_ColumnCount ==
  last.op \in {"refine2", "refine2_wavelength"} =>
    LET w == IF last.op = "refine2" THEN "" ELSE "_wavelength"
    IN /\ ncols \notin {3, 4}
            => /\ last.ret.tag = "error"
               /\ last.minimized = ""
               /\ last.cand = <<>>
               /\ pose = last.prePose
       /\ ncols = 3
            => /\ last.minimized = "residu2" \o w
               /\ last.weight = <<>>
       /\ ncols = 4
            => /\ last.minimized = "residu2" \o w \o "_weighted"
               /\ last.weight = [i \in 1..Len(Rows) |-> Rows[i][4]]

\* refine2_wavelength was called on a five-column dataset and raised
C10_Witness ==
  /\ last.op = "refine2_wavelength"
  /\ ncols = 5
  /\ last.ret.exc = "UnboundLocalError"
  /\ pose = last.prePose

\* the names roca recognises as the first of three tokens
RocaNames == {"cen1", "cen2", "dis", "rot1", "rot2", "rot3"}

\* a line of three tokens whose first token is a recognised name
Recognised(word) == Len(word) = 3 /\ word[1] \in RocaNames

\* the candidate entry a recognised name stands for, in the order
\* (dist, poni1, poni2, rot1, rot2, rot3)
EntryOf(name) ==
  CASE name = "dis" -> 1 [] name = "cen1" -> 2 [] name = "cen2" -> 3
    [] name = "rot1" -> 4 [] name = "rot2" -> 5 [] name = "rot3" -> 6

\* C11 (roca parsing): in a roca call every candidate entry is the number on
\* the last recognised three-token line for that entry (times the pixel
\* size for cen1 and cen2) and the pre-call pose field when there is no such
\* line; lines of any other shape raise no error; output with only cen1 and
\* cen2 lines and noise changes only poni1 and poni2 in the candidate; and
\* with no recognised line the candidate is the pre-call pose and is not
\* committed.
C11_RocaParsing ==
  last.op = "roca" =>
    LET lines == last.tool.stdout
        P == PoseVector(last.prePose)
        on(i) == {k \in 1..Len(lines) :
                    Recognised(lines[k]) /\ EntryOf(lines[k][1]) = i}
        top(S) == CHOOSE k \in S : \A j \in S : j <= k
        number(i) == FloatTable[lines[top(on(i))][2]]
        scaled(i) == IF i = 2 THEN number(i) * pixel1
                     ELSE IF i = 3 THEN number(i) * pixel2
                     ELSE number(i) * Unit
        numeric == \A k \in 1..Len(lines) :
                     Recognised(lines[k]) => IsFloat(lines[k][2])
        none == \A k \in 1..Len(lines) : ~Recognised(lines[k])
    IN /\ (last.tool.exists /\ ncols >= 3 /\ ResidualError = "" /\ numeric)
            => last.ret.tag # "error"
       /\ last.ret.tag # "error"
            => /\ \A i \in 1..6 :
                    last.cand[i] = IF on(i) = {} THEN P[i]
                                   ELSE scaled(i) \div Unit
               /\ (on(1) \cup on(4) \cup on(5) \cup on(6) = {})
                    => \A i \in {1, 4, 5, 6} : last.cand[i] = P[i]
               /\ none => (last.cand = P /\ ~last.committed)

\* C12 (snapshot): in every strategy call that returns normally the old
\* chi-squared of the commit comparison is the chi-squared of the pose at
\* the start of the call, and afterwards the first six elements of param
\* are (dist, poni1, poni2, rot1, rot2, rot3).
C12_SnapshotFirst ==
  (last.op \in Strategies /\ last.ret.tag # "error")
    => /\ last.old = PoseChi2(last.prePose)
       /\ SubSeq(param.v, 1, 6) = PoseVector(pose)

====
